---- MODULE Spec2Model ----
(***************************************************************************)
(* Model of FtxWebsocketClient (src/websocket/client.py): the subscription *)
(* registry, the per-market order-book replicas, the history buffers and   *)
(* the frame dispatcher.  The base class WebsocketManager is not part of   *)
(* the sources; its send_json and reconnect are modelled from the          *)
(* specification (sections 4.2 and 4.5).                                   *)
(***************************************************************************)
EXTENDS Integers, Sequences, FiniteSets, TLC

\* ------------------------------------------------------------------ bounds
MaxPrice == 2
MaxSize == 1
MaxDelta == 2
MaxPairs == 1
MaxTopPrice == 1
MaxHistory == 1
MaxSubs == 2
MaxOverflow == 2
DigestRange == 1000003

Markets == {"A", "B"}
Prices == 1..MaxPrice
Sizes == 0..MaxSize
Sides == {"bids", "asks"}

\* ------------------------------------------------------- program constants
ChecksumDepth == 100
maxlen == 10000
RECONNECT_CODE == 20001

\* ------------------------------------------------------------ plain values
None == "None"

\* {'channel': c, 'market': m} and {'channel': c}
MarketSub(channel, market) == [channel |-> channel, market |-> market]
PrivateSub(channel) == [channel |-> channel]

AllSubs ==
    {MarketSub(c, m) : c \in {"orderbook", "trades", "ticker"}, m \in Markets}
        \cup {PrivateSub("fills"), PrivateSub("orders")}

\* what the wire history counts per connection: the subscribe messages of
\* each subscription and the login messages
LoginKey == [channel |-> "login"]
WireKeys == AllSubs \cup {LoginKey}

\* a dict with no key
EmptyDict == [k \in {} |-> 0]

\* defaultdict(lambda: {side: defaultdict(float) for side in {'bids','asks'}})
EmptyBook == [side \in Sides |-> EmptyDict]

\* lists of [price, size] pairs, as a frame carries them
RECURSIVE SeqsUpTo(_, _)
SeqsUpTo(S, n) ==
    IF n = 0 THEN {<<>>}
    ELSE LET shorter == SeqsUpTo(S, n - 1)
         IN  shorter \cup {Append(q, x) : q \in {r \in shorter : Len(r) = n - 1}, x \in S}

Pairs == {<<p, z>> : p \in Prices, z \in Sizes}
Deltas == SeqsUpTo(Pairs, MaxDelta)

\* ---------------------------------------------------------- pure functions

\* {price: size for price, size in data[side]}: a later pair overwrites an
\* earlier one with the same price
RECURSIVE DictOfPairs(_)
DictOfPairs(pairs) ==
    IF pairs = <<>> THEN EmptyDict
    ELSE LET n    == Len(pairs)
             head == DictOfPairs(SubSeq(pairs, 1, n - 1))
             p    == pairs[n][1]
         IN  [k \in DOMAIN head \cup {p} |-> IF k = p THEN pairs[n][2] ELSE head[k]]

\* mutant: update that keeps the value of a key already present
DictUpdateKeepsOld(d, other) ==
    [k \in DOMAIN d \cup DOMAIN other |-> IF k \in DOMAIN d THEN d[k] ELSE other[k]]

\* dict.update(other)
DictUpdate(d, other) ==
    [k \in DOMAIN d \cup DOMAIN other |-> IF k \in DOMAIN other THEN other[k] ELSE d[k]]

\* mutant: the sort key without the sign for bids
SortKeyUnsigned(side, price) == price

\* key=lambda order: order[0] * (-1 if side == 'bids' else 1)
SortKey(side, price) == price * (IF side = "bids" THEN -1 ELSE 1)

\* sorted(...) over levels with distinct prices, ascending by SortKey
RECURSIVE SortedPrices(_, _)
SortedPrices(side, S) ==
    IF S = {} THEN <<>>
    ELSE LET p == CHOOSE p \in S : \A q \in S : SortKey(side, p) <= SortKey(side, q)
         IN  <<p>> \o SortedPrices(side, S \ {p})

\* mutant: the comprehension without its `if quantity`
TruthyUnfiltered(d) == DOMAIN d

\* [[price, quantity] for price, quantity in items if quantity]
Truthy(d) == {p \in DOMAIN d : d[p] # 0}

\* one side of the value get_orderbook returns
SideView(side, d) ==
    LET order == SortedPrices(side, Truthy(d))
    IN  [i \in 1..Len(order) |-> <<order[i], d[order[i]]>>]

BookView(book) == [side \in Sides |-> SideView(side, book[side])]

\* lst[:n]
Prefix(lst, n) == SubSeq(lst, 1, IF Len(lst) < n THEN Len(lst) ELSE n)

\* the text the checksum is taken over, as its sequence of number tokens:
\* zip_longest pairs the i-th bid with the i-th ask, each present order gives
\* the tokens price, size, and ':' joins everything
RECURSIVE ZipTokens(_, _, _)
ZipTokens(bids, asks, i) ==
    IF i > Len(bids) /\ i > Len(asks) THEN <<>>
    ELSE (IF i <= Len(bids) THEN bids[i] ELSE <<>>)
             \o (IF i <= Len(asks) THEN asks[i] ELSE <<>>)
             \o ZipTokens(bids, asks, i + 1)

ChecksumText(orderbook) ==
    ZipTokens(Prefix(orderbook["bids"], ChecksumDepth),
              Prefix(orderbook["asks"], ChecksumDepth), 1)

\* zlib.crc32 of the text, as a digest folded over its tokens (its range is
\* DigestRange: TLC's integers are narrower than an unsigned 32-bit value);
\* the digest of the empty text is 0, as zlib's is
RECURSIVE crc32(_)
crc32(text) ==
    IF text = <<>> THEN 0
    ELSE (crc32(SubSeq(text, 1, Len(text) - 1)) * 31 + text[Len(text)] + 1) % DigestRange

\* list.remove(x): drops the first occurrence
RECURSIVE Remove(_, _)
Remove(lst, x) ==
    IF lst = <<>> THEN <<>>
    ELSE IF Head(lst) = x THEN Tail(lst)
    ELSE <<Head(lst)>> \o Remove(Tail(lst), x)

Contains(lst, x) == \E i \in 1..Len(lst) : lst[i] = x

Count(lst, x) == Cardinality({i \in 1..Len(lst) : lst[i] = x})

\* ------------------------------------------------------------------- state
VARIABLES
    _subscriptions,   \* list of subscription dicts
    _orders,          \* order id -> order
    _tickers,         \* market -> ticker
    _orderbooks,      \* market -> side -> price -> size
    _logged_in,       \* authenticated flag
    _trades,          \* market -> deque
    _fills,           \* deque
    sent,             \* wire messages the last operation sent, in order
    wire,             \* per subscription: subscribes minus unsubscribes sent on the current connection; and the logins sent on it
    raised,           \* exception the last operation raised, or None
    lastOp,           \* history: the last operation and its arguments
    feed,             \* history, per market: the last server checksum and the desync mark
    track,            \* history: the market followed since its partial, and the merge expected of it
    focus,            \* the market whose feed the single-market specification follows
    log,              \* history: every element the fills and trades handlers appended, in order
    held,             \* the value a consumer keeps from its last read, and whether it is the client's own object
    readerPc,         \* consumer context: where it is in its get_* call
    readerSub,        \* consumer context: the subscription of that call
    writerPc          \* frame-processing context: where it is in reconnect

vars == <<_subscriptions, _orders, _tickers, _orderbooks, _logged_in, _trades, _fills,
          sent, wire, raised, lastOp, feed, track, focus, log, held,
          readerPc, readerSub, writerPc>>

history == <<feed, track, focus, log, held>>
threads == <<readerPc, readerSub, writerPc>>

\* the client object at the start of an operation
Self ==
    [_subscriptions |-> _subscriptions, _orders |-> _orders, _tickers |-> _tickers,
     _orderbooks |-> _orderbooks, _logged_in |-> _logged_in, _trades |-> _trades,
     _fills |-> _fills, sent |-> <<>>, wire |-> wire, raised |-> None]

Commit(s) ==
    /\ _subscriptions' = s._subscriptions
    /\ _orders' = s._orders
    /\ _tickers' = s._tickers
    /\ _orderbooks' = s._orderbooks
    /\ _logged_in' = s._logged_in
    /\ _trades' = s._trades
    /\ _fills' = s._fills
    /\ sent' = s.sent
    /\ wire' = s.wire
    /\ raised' = s.raised

\* an operation run to completion on one context
Done(s) == Commit(s) /\ UNCHANGED threads

\* ----------------------------------------------------------------- methods

\* WebsocketManager.send_json: the message goes out on the current connection
SubOf(message) == [k \in DOMAIN message \ {"op"} |-> message[k]]

send_json(s, message) ==
    LET s1 == [s EXCEPT !.sent = Append(@, message)]
    IN  IF message.op = "subscribe"
        THEN [s1 EXCEPT !.wire[SubOf(message)] = @ + 1]
        ELSE IF message.op = "unsubscribe"
        THEN [s1 EXCEPT !.wire[SubOf(message)] = IF @ > 0 THEN @ - 1 ELSE 0]
        ELSE IF message.op = "login"
        THEN [s1 EXCEPT !.wire[LoginKey] = @ + 1]
        ELSE s1

_reset_orderbook(s) == [s EXCEPT !._orderbooks = [m \in Markets |-> EmptyBook]]

_reset_data(s) ==
    LET s1 == [s EXCEPT !._subscriptions = <<>>, !._orders = EmptyDict, !._tickers = EmptyDict]
    IN  [_reset_orderbook(s1) EXCEPT !._logged_in = FALSE]

_login(s) == [send_json(s, [op |-> "login"]) EXCEPT !._logged_in = TRUE]

_subscribe(s, subscription) ==
    [send_json(s, [op |-> "subscribe"] @@ subscription)
        EXCEPT !._subscriptions = Append(@, subscription)]

\* mutant: an unsubscribe that empties the registry
_unsubscribeAll(s, subscription) ==
    LET s1 == send_json(s, [op |-> "unsubscribe"] @@ subscription)
    IN  IF Contains(s1._subscriptions, subscription)
        THEN [s1 EXCEPT !._subscriptions = <<>>]
        ELSE [s1 EXCEPT !.raised = "ValueError"]

_unsubscribe(s, subscription) ==
    LET s1 == send_json(s, [op |-> "unsubscribe"] @@ subscription)
    IN  IF Contains(s1._subscriptions, subscription)
        THEN [s1 EXCEPT !._subscriptions = Remove(@, subscription)]
        ELSE [s1 EXCEPT !.raised = "ValueError"]

\* WebsocketManager.reconnect: a new connection, the login handshake if the
\* client is authenticated, then one subscribe message per registry entry
RECURSIVE Replay(_, _)
Replay(s, subs) ==
    IF subs = <<>> THEN s
    ELSE Replay(send_json(s, [op |-> "subscribe"] @@ Head(subs)), Tail(subs))

super_reconnect(s) ==
    LET fresh == [s EXCEPT !.wire = [x \in WireKeys |-> 0]]
        auth  == IF fresh._logged_in THEN _login(fresh) ELSE fresh
    IN  Replay(auth, auth._subscriptions)

reconnect(s) == super_reconnect(_reset_data(s))

\* a method's outcome: the client afterwards and the value returned
Ret(s, value) == [self |-> s, result |-> value]

\* mutant: get_orderbook without the lazy subscription
get_orderbookNoSubscribe(s, market) == Ret(s, BookView(s._orderbooks[market]))

get_orderbook(s, market) ==
    LET subscription == MarketSub("orderbook", market)
        s1 == IF ~Contains(s._subscriptions, subscription)
              THEN _subscribe(s, subscription) ELSE s
    IN  Ret(s1, BookView(s1._orderbooks[market]))

get_fills(s) ==
    LET s1 == IF ~s._logged_in THEN _login(s) ELSE s
        subscription == PrivateSub("fills")
        s2 == IF ~Contains(s1._subscriptions, subscription)
              THEN _subscribe(s1, subscription) ELSE s1
    IN  Ret(s2, s2._fills)

get_orders(s) ==
    LET s1 == IF ~s._logged_in THEN _login(s) ELSE s
        subscription == PrivateSub("orders")
        s2 == IF ~Contains(s1._subscriptions, subscription)
              THEN _subscribe(s1, subscription) ELSE s1
    IN  Ret(s2, s2._orders)

\* mutant: get_trades without the membership test
get_tradesUnchecked(s, market) ==
    LET s1 == _subscribe(s, MarketSub("trades", market))
    IN  Ret(s1, s1._trades[market])

get_trades(s, market) ==
    LET subscription == MarketSub("trades", market)
        s1 == IF ~Contains(s._subscriptions, subscription)
              THEN _subscribe(s, subscription) ELSE s
    IN  Ret(s1, s1._trades[market])

\* self._tickers is a defaultdict(dict): reading a missing market inserts {}
get_ticker(s, market) ==
    LET subscription == MarketSub("ticker", market)
        s1 == IF ~Contains(s._subscriptions, subscription)
              THEN _subscribe(s, subscription) ELSE s
        s2 == IF market \in DOMAIN s1._tickers THEN s1
              ELSE [s1 EXCEPT !._tickers = DictUpdate(@, [m \in {market} |-> EmptyDict])]
    IN  Ret(s2, s2._tickers[market])

\* lines 101-106: the reset on a partial, then the merge of both sides
MergeFrame(s, message) ==
    LET market == message.market
        data   == message.data
        s1 == IF data.action = "partial" THEN _reset_orderbook(s) ELSE s
    IN  [s1 EXCEPT !._orderbooks[market] =
            [side \in Sides |-> DictUpdate(@[side], DictOfPairs(data[side]))]]

\* lines 108-114: the checksum of the merged replica, read through get_orderbook
ComputedResult(s, message) ==
    crc32(ChecksumText(get_orderbook(MergeFrame(s, message), message.market).result))

_handle_orderbook_message(s, message) ==
    LET market == message.market
        checksum == message.data.checksum
        got == get_orderbook(MergeFrame(s, message), market)
        computed_result == crc32(ChecksumText(got.result))
    IN  IF computed_result # checksum
        THEN _unsubscribe(_reset_orderbook(got.self), MarketSub("orderbook", market))
        ELSE got.self

\* mutant: a full deque that refuses the new element
DequeAppendKeepsOldest(deque, x) ==
    IF Len(deque) >= maxlen THEN deque ELSE Append(deque, x)

\* collections.deque(maxlen=...).append
DequeAppend(deque, x) ==
    LET grown == Append(deque, x)
    IN  IF Len(grown) > maxlen THEN Tail(grown) ELSE grown

_handle_trades_message(s, message) ==
    [s EXCEPT !._trades[message.market] = DequeAppend(@, message.data)]

_handle_ticker_message(s, message) ==
    [s EXCEPT !._tickers = DictUpdate(@, [m \in {message.market} |-> message.data])]

_handle_fills_message(s, message) ==
    [s EXCEPT !._fills = DequeAppend(@, message.data)]

_handle_orders_message(s, message) ==
    [s EXCEPT !._orders = DictUpdate(@, [i \in {message.data.id} |-> message.data])]

\* a frame field that may be missing: message['channel'] raises KeyError then
Has(message, key) == key \in DOMAIN message

\* mutant: dispatch that treats an error frame as an acknowledgement
_on_messageIgnoresError(s, message) ==
    LET message_type == message.type
    IN  IF message_type \in {"subscribed", "unsubscribed", "error"} THEN s
        ELSE IF message_type = "info" /\ message.code = RECONNECT_CODE THEN reconnect(s)
        ELSE IF ~Has(message, "channel") THEN [s EXCEPT !.raised = "KeyError"]
        ELSE IF message.channel = "orderbook" THEN _handle_orderbook_message(s, message)
        ELSE IF message.channel = "trades" THEN _handle_trades_message(s, message)
        ELSE IF message.channel = "ticker" THEN _handle_ticker_message(s, message)
        ELSE IF message.channel = "fills" THEN _handle_fills_message(s, message)
        ELSE IF message.channel = "orders" THEN _handle_orders_message(s, message)
        ELSE s

_on_message(s, message) ==
    LET message_type == message.type
    IN  IF message_type \in {"subscribed", "unsubscribed"} THEN s
        ELSE IF message_type = "info" /\ message.code = RECONNECT_CODE THEN reconnect(s)
        ELSE IF message_type = "error" THEN [s EXCEPT !.raised = "Exception"]
        ELSE IF ~Has(message, "channel") THEN [s EXCEPT !.raised = "KeyError"]
        ELSE IF message.channel = "orderbook" THEN _handle_orderbook_message(s, message)
        ELSE IF message.channel = "trades" THEN _handle_trades_message(s, message)
        ELSE IF message.channel = "ticker" THEN _handle_ticker_message(s, message)
        ELSE IF message.channel = "fills" THEN _handle_fills_message(s, message)
        ELSE IF message.channel = "orders" THEN _handle_orders_message(s, message)
        ELSE s

OrderbookSub(market) == MarketSub("orderbook", market)

\* ------------------------------------------------------- history variables
NoOp == [op |-> "init", channel |-> None, market |-> None, action |-> None, matched |-> FALSE]

Op(op, channel, market) == [NoOp EXCEPT !.op = op, !.channel = channel, !.market = market]

EmptyView == [side \in Sides |-> <<>>]

\* received: a frame has been applied to the replica since it was last
\* invalidated; the history is per connection
NoFeed == [received |-> FALSE, checksum |-> 0, desynced |-> FALSE]

NoTrack == [market |-> None, expected |-> EmptyView]

NoLog == [fills |-> <<>>, trades |-> [m \in Markets |-> <<>>]]

\* attached: the value is the very object the client's map holds under
\* `market`, not a copy of it
NoHeld == [accessor |-> None, market |-> None, value |-> <<>>, attached |-> FALSE]

\* the client's map is rebound or recreated: a value handed out earlier is no
\* longer the object it holds
Detached(market) ==
    IF held.attached /\ (market = None \/ held.market = market)
    THEN [held EXCEPT !.attached = FALSE] ELSE held

\* what the claims expect of a merge, on the snapshot: the levels of the old
\* snapshot and the frame's pairs, the latest pair of a price winning, a price
\* whose latest size is 0 absent, in the side's order
LatestSize(pairs, p) ==
    LET at == {i \in 1..Len(pairs) : pairs[i][1] = p}
    IN  pairs[CHOOSE i \in at : \A j \in at : j <= i][2]

ExpectedSide(side, old, pairs) ==
    LET inPairs == {pairs[i][1] : i \in 1..Len(pairs)}
        inOld   == {old[i][1] : i \in 1..Len(old)}
        size(p) == IF p \in inPairs THEN LatestSize(pairs, p)
                   ELSE old[CHOOSE i \in 1..Len(old) : old[i][1] = p][2]
        kept    == {p \in inPairs \cup inOld : size(p) # 0}
        ahead(p) == {q \in kept : IF side = "bids" THEN q > p ELSE q < p}
    IN  [i \in 1..Cardinality(kept) |->
            LET p == CHOOSE p \in kept : Cardinality(ahead(p)) = i - 1
            IN  <<p, size(p)>>]

ExpectedView(old, data) ==
    [side \in Sides |-> ExpectedSide(side, old[side], data[side])]

\* the history of one orderbook frame for `market`
FeedAfter(market, data, matched) ==
    [feed EXCEPT ![market] =
        [received |-> matched,
         checksum |-> data.checksum,
         desynced |-> IF ~matched THEN TRUE
                      ELSE IF data.action = "partial" THEN FALSE
                      ELSE @.desynced]]

\* the merge expected after one orderbook frame for `market`: followed from a
\* partial on, as long as every checksum matches and no other market's frame
\* comes in between
TrackAfter(market, data, matched) ==
    IF ~matched THEN NoTrack
    ELSE IF data.action = "partial"
    THEN [market |-> market, expected |-> ExpectedView(EmptyView, data)]
    ELSE IF track.market = market
    THEN [market |-> market, expected |-> ExpectedView(track.expected, data)]
    ELSE NoTrack

\* ----------------------------------------------------------------- actions
Init ==
    /\ _subscriptions = <<>>
    /\ _orders = EmptyDict
    /\ _tickers = EmptyDict
    /\ _orderbooks = [m \in Markets |-> EmptyBook]
    /\ _logged_in = FALSE
    /\ _trades = [m \in Markets |-> <<>>]
    /\ _fills = <<>>
    /\ sent = <<>>
    /\ wire = [x \in WireKeys |-> 0]
    /\ raised = None
    /\ lastOp = NoOp
    /\ feed = [m \in Markets |-> NoFeed]
    /\ track = NoTrack
    /\ focus \in Markets
    /\ log = NoLog
    /\ held = NoHeld
    /\ readerPc = "idle"
    /\ readerSub = PrivateSub("fills")
    /\ writerPc = "idle"

\* the checksums a server may attach: the one the merged replica has, and another
ServerChecksums(market, action, bids, asks) ==
    LET probe == [market |-> market,
                  data |-> [action |-> action, bids |-> bids, asks |-> asks, checksum |-> 0]]
        c == ComputedResult(Self, probe)
    IN  {c, (c + 1) % DigestRange}

OrderbookFrame(market, action, bids, asks, checksum) ==
    [type |-> action, channel |-> "orderbook", market |-> market,
     data |-> [action |-> action, bids |-> bids, asks |-> asks, checksum |-> checksum]]

Matched(message) == ComputedResult(Self, message) = message.data.checksum

\* the registry holds at most MaxSubs entries in the model
Room(subscription) ==
    Contains(_subscriptions, subscription) \/ Len(_subscriptions) < MaxSubs

\* consumer call get_orderbook(market)
GetOrderbook(market) ==
    /\ Room(OrderbookSub(market))
    /\ Done(get_orderbook(Self, market).self)
    /\ lastOp' = Op("get_orderbook", "orderbook", market)
    /\ UNCHANGED history

\* an orderbook frame arrives and is dispatched
OrderbookStep(message) ==
    /\ Done(_on_message(Self, message))
    /\ lastOp' = [Op("frame", "orderbook", message.market)
                     EXCEPT !.action = message.data.action, !.matched = Matched(message)]

OnOrderbookFrame(market, action, bids, asks, checksum) ==
    LET message == OrderbookFrame(market, action, bids, asks, checksum)
    IN  /\ OrderbookStep(message)
        /\ feed' = FeedAfter(market, message.data, Matched(message))
        /\ UNCHANGED <<track, focus, log, held>>

\* the same, on the followed market, with the expected merge recorded
OnFocusFrame(action, bids, asks, checksum) ==
    LET message == OrderbookFrame(focus, action, bids, asks, checksum)
    IN  /\ OrderbookStep(message)
        /\ track' = TrackAfter(focus, message.data, Matched(message))
        /\ UNCHANGED <<feed, focus, log, held>>

\* an info frame with code 20001 arrives: the server asks for a reconnect
OnInfoFrame ==
    /\ Done(_on_message(Self, [type |-> "info", code |-> RECONNECT_CODE]))
    /\ lastOp' = Op("info", None, None)
    /\ track' = NoTrack
    /\ feed' = [m \in Markets |-> NoFeed]
    /\ held' = Detached(None)
    /\ UNCHANGED <<focus, log>>

\* the transport closes: the supervisor reconnects
OnClose ==
    /\ Done(reconnect(Self))
    /\ lastOp' = Op("close", None, None)
    /\ track' = NoTrack
    /\ feed' = [m \in Markets |-> NoFeed]
    /\ held' = Detached(None)
    /\ UNCHANGED <<focus, log>>

\* consumer calls of the other query methods
GetFills ==
    /\ Room(PrivateSub("fills"))
    /\ Done(get_fills(Self).self)
    /\ lastOp' = Op("get_fills", "fills", None)
    /\ UNCHANGED history

GetOrders ==
    /\ Room(PrivateSub("orders"))
    /\ Done(get_orders(Self).self)
    /\ lastOp' = Op("get_orders", "orders", None)
    /\ UNCHANGED history

GetTrades(market) ==
    /\ Room(MarketSub("trades", market))
    /\ Done(get_trades(Self, market).self)
    /\ lastOp' = Op("get_trades", "trades", market)
    /\ UNCHANGED history

GetTicker(market) ==
    /\ Room(MarketSub("ticker", market))
    /\ Done(get_ticker(Self, market).self)
    /\ lastOp' = Op("get_ticker", "ticker", market)
    /\ UNCHANGED history

\* the registry's subscribe operation, called on its own
Subscribe(subscription) ==
    /\ Len(_subscriptions) < MaxSubs
    /\ Done(_subscribe(Self, subscription))
    /\ lastOp' = Op("_subscribe", subscription.channel,
                    IF "market" \in DOMAIN subscription THEN subscription.market ELSE None)
    /\ UNCHANGED history

\* data frames of the other channels
TradePayloads == {<<"t1">>, <<"t1", "t2">>}
TickerPayloads == {[bid |-> 1, ask |-> 2], [bid |-> 2, ask |-> 3]}
FillPayloads == {[id |-> 1, size |-> 1]}
OrderPayloads == {[id |-> 1, status |-> "open"], [id |-> 1, status |-> "closed"]}

DataFrame(channel, market, data) ==
    [type |-> "update", channel |-> channel, market |-> market, data |-> data]

OnTradesFrame(market, data) ==
    /\ Len(_trades[market]) < MaxHistory
    /\ Done(_on_message(Self, DataFrame("trades", market, data)))
    /\ lastOp' = Op("frame", "trades", market)
    /\ log' = [log EXCEPT !.trades[market] = Append(@, data)]
    /\ UNCHANGED <<feed, track, focus, held>>

OnTickerFrame(market, data) ==
    /\ Done(_on_message(Self, DataFrame("ticker", market, data)))
    /\ lastOp' = Op("frame", "ticker", market)
    /\ held' = Detached(market)
    /\ UNCHANGED <<feed, track, focus, log>>

OnFillsFrame(data) ==
    /\ Len(_fills) < MaxHistory
    /\ Done(_on_message(Self, [type |-> "update", channel |-> "fills", data |-> data]))
    /\ lastOp' = Op("frame", "fills", None)
    /\ log' = [log EXCEPT !.fills = Append(@, data)]
    /\ UNCHANGED <<feed, track, focus, held>>

OnOrdersFrame(data) ==
    /\ Done(_on_message(Self, [type |-> "update", channel |-> "orders", data |-> data]))
    /\ lastOp' = Op("frame", "orders", None)
    /\ UNCHANGED history

\* the two-market feed: frames for any market, of at most MaxPairs pairs at
\* the prices up to MaxTopPrice
TopDeltas ==
    {d \in [bids : Deltas, asks : Deltas] :
        /\ Len(d.bids) + Len(d.asks) <= MaxPairs
        /\ \A i \in 1..Len(d.bids) : d.bids[i][1] <= MaxTopPrice
        /\ \A i \in 1..Len(d.asks) : d.asks[i][1] <= MaxTopPrice}

NextBook ==
    \/ \E market \in Markets : GetOrderbook(market)
    \/ \E market \in Markets, action \in {"partial", "update"}, d \in TopDeltas :
           \E checksum \in ServerChecksums(market, action, d.bids, d.asks) :
               OnOrderbookFrame(market, action, d.bids, d.asks, checksum)
    \/ OnInfoFrame
    \/ OnClose

SpecBook == Init /\ [][NextBook]_vars

\* the single-market feed: frames for the followed market, of at most MaxDelta
\* pairs over all prices
FocusDeltas == {d \in [bids : Deltas, asks : Deltas] : Len(d.bids) + Len(d.asks) <= MaxDelta}

NextReplica ==
    \/ \E market \in Markets : GetOrderbook(market)
    \/ \E action \in {"partial", "update"}, d \in FocusDeltas :
           \E checksum \in ServerChecksums(focus, action, d.bids, d.asks) :
               OnFocusFrame(action, d.bids, d.asks, checksum)
    \/ OnInfoFrame
    \/ OnClose

SpecReplica == Init /\ [][NextReplica]_vars

\* the registry: every query method, the registry's own subscribe, reconnects
NextRegistry ==
    \/ GetFills
    \/ GetOrders
    \/ \E market \in Markets : GetTrades(market)
    \/ \E market \in Markets : GetOrderbook(market)
    \/ \E market \in Markets : GetTicker(market)
    \/ \E subscription \in AllSubs : Subscribe(subscription)
    \/ OnInfoFrame
    \/ OnClose

SpecRegistry == Init /\ [][NextRegistry]_vars

\* the history buffers and latest-value maps: data frames, logins, reconnects
NextData ==
    \/ \E market \in Markets, data \in TradePayloads : OnTradesFrame(market, data)
    \/ \E market \in Markets, data \in TickerPayloads : OnTickerFrame(market, data)
    \/ \E data \in FillPayloads : OnFillsFrame(data)
    \/ \E data \in OrderPayloads : OnOrdersFrame(data)
    \/ GetFills
    \/ OnInfoFrame
    \/ OnClose

SpecData == Init /\ [][NextData]_vars

\* ------------------------------------------------- two contexts, step by step
IsPrivate(subscription) == "market" \notin DOMAIN subscription

Step(s) == Commit(s) /\ UNCHANGED history

\* the consumer enters get_fills / get_orders / get_trades / get_orderbook /
\* get_ticker and evaluates its first condition
ReaderEnter(subscription) ==
    /\ readerPc = "idle"
    /\ Room(subscription)
    /\ readerSub' = subscription
    /\ readerPc' = IF IsPrivate(subscription)
                   THEN (IF ~_logged_in THEN "login_send" ELSE "check")
                   ELSE (IF ~Contains(_subscriptions, subscription) THEN "send" ELSE "idle")
    /\ Step(Self)
    /\ lastOp' = Op("enter", subscription.channel, None)
    /\ UNCHANGED writerPc

\* _login: send_json, then the flag
ReaderLoginSend ==
    /\ readerPc = "login_send"
    /\ Step(send_json(Self, [op |-> "login"]))
    /\ readerPc' = "login_flag"
    /\ lastOp' = Op("login_send", readerSub.channel, None)
    /\ UNCHANGED <<readerSub, writerPc>>

ReaderLoginFlag ==
    /\ readerPc = "login_flag"
    /\ Step([Self EXCEPT !._logged_in = TRUE])
    /\ readerPc' = "check"
    /\ lastOp' = Op("login_flag", readerSub.channel, None)
    /\ UNCHANGED <<readerSub, writerPc>>

\* if subscription not in self._subscriptions
ReaderCheck ==
    /\ readerPc = "check"
    /\ Step(Self)
    /\ readerPc' = IF ~Contains(_subscriptions, readerSub) THEN "send" ELSE "idle"
    /\ lastOp' = Op("check", readerSub.channel, None)
    /\ UNCHANGED <<readerSub, writerPc>>

\* _subscribe: send_json, then the append
ReaderSend ==
    /\ readerPc = "send"
    /\ Step(send_json(Self, [op |-> "subscribe"] @@ readerSub))
    /\ readerPc' = "append"
    /\ lastOp' = Op("send", readerSub.channel, None)
    /\ UNCHANGED <<readerSub, writerPc>>

ReaderAppend ==
    /\ readerPc = "append"
    /\ Step([Self EXCEPT !._subscriptions = Append(@, readerSub)])
    /\ readerPc' = "idle"
    /\ lastOp' = Op("append", readerSub.channel, None)
    /\ UNCHANGED <<readerSub, writerPc>>

\* the frame-processing context runs reconnect(): _reset_data line by line,
\* then the base class's reconnect
WriterResetSubscriptions ==
    /\ writerPc = "idle"
    /\ Step([Self EXCEPT !._subscriptions = <<>>])
    /\ writerPc' = "reset"
    /\ lastOp' = Op("reset_subscriptions", None, None)
    /\ UNCHANGED <<readerPc, readerSub>>

WriterResetRest ==
    /\ writerPc = "reset"
    /\ Step([_reset_data(Self) EXCEPT !._subscriptions = _subscriptions])
    /\ writerPc' = "super"
    /\ lastOp' = Op("reset_rest", None, None)
    /\ UNCHANGED <<readerPc, readerSub>>

WriterSuperReconnect ==
    /\ writerPc = "super"
    /\ Step(super_reconnect(Self))
    /\ writerPc' = "idle"
    /\ lastOp' = Op("super_reconnect", None, None)
    /\ UNCHANGED <<readerPc, readerSub>>

NextConc ==
    \/ \E subscription \in AllSubs : ReaderEnter(subscription)
    \/ ReaderLoginSend
    \/ ReaderLoginFlag
    \/ ReaderCheck
    \/ ReaderSend
    \/ ReaderAppend
    \/ WriterResetSubscriptions
    \/ WriterResetRest
    \/ WriterSuperReconnect

SpecConc == Init /\ [][NextConc]_vars

\* ------------------------------------------------------------------ claims

\* the subscription an operation is about
OpSub(o) == IF o.market = None THEN PrivateSub(o.channel) ELSE MarketSub(o.channel, o.market)

QueryOps == {"get_fills", "get_orders", "get_trades", "get_orderbook", "get_ticker"}
ReconnectOps == {"info", "close"}

\* how many subscribe messages for `subscription` are among `messages`
SubscribesIn(messages, subscription) ==
    Cardinality({i \in 1..Len(messages) :
        messages[i].op = "subscribe" /\ SubOf(messages[i]) = subscription})

\* C1 (as claimed): a reconnect leaves the registry as it was and re-sends
\* exactly one subscribe message for each of its elements.
C1_ResubscriptionFidelity ==
    [][lastOp'.op \in ReconnectOps
          => /\ _subscriptions' = _subscriptions
             /\ \A x \in AllSubs :
                    SubscribesIn(sent', x) = IF Contains(_subscriptions, x) THEN 1 ELSE 0]_vars

C9_ReconnectClearsAll ==
    lastOp.op \in ReconnectOps
        => /\ \A m \in Markets : _orderbooks[m] = EmptyBook /\ _trades[m] = <<>>
           /\ _fills = <<>>
           /\ DOMAIN _tickers = {}
           /\ DOMAIN _orders = {}
           /\ ~_logged_in

\* C10 (as claimed): once a consumer query call and a reconnect have both
\* finished, every registered subscription has had exactly one subscribe
\* message sent on the current connection.
C10_NoLostOrDuplicateSubscribe ==
    (readerPc = "idle" /\ writerPc = "idle")
        => \A x \in AllSubs : Contains(_subscriptions, x) => wire[x] = 1

\* what get_orderbook(market) returns in the current state
Snapshot(market) == get_orderbook(Self, market).result

LevelPrices(levels) == {levels[i][1] : i \in 1..Len(levels)}

\* C2 (as claimed): a partial frame for a market leaves the bid and ask maps of
\* every other market as they were.
C2_PartialKeepsOtherMarkets ==
    [][(lastOp'.op = "frame" /\ lastOp'.action = "partial")
          => \A m \in Markets \ {lastOp'.market} : _orderbooks'[m] = _orderbooks[m]]_vars

\* C3 (as claimed): every live replica (registered, and a frame applied to it)
\* has the checksum the server last supplied for its market.
C3_LiveReplicaChecksum ==
    \A m \in Markets :
        (Contains(_subscriptions, OrderbookSub(m)) /\ feed[m].received)
            => crc32(ChecksumText(Snapshot(m))) = feed[m].checksum

\* C4 (as claimed): from a checksum mismatch for a market until a partial frame
\* for it has been applied, get_orderbook returns empty bids and asks.
C4_DesyncedStaysEmpty ==
    \A m \in Markets : feed[m].desynced => Snapshot(m) = EmptyView

C6_MergeLastWriteWins ==
    track.market # None => Snapshot(track.market) = track.expected

\* the scenario of the specification, at the model's prices: after the partial
\* with two bids and the update that zeroes the better one, the other remains
C6_Witness ==
    /\ track.market = focus
    /\ lastOp.op = "frame" /\ lastOp.action = "update" /\ lastOp.matched
    /\ DOMAIN _orderbooks[focus]["bids"] = {1, 2}
    /\ _orderbooks[focus]["bids"][2] = 0
    /\ Snapshot(focus)["bids"] = <<<<1, 1>>>>

\* C7: every snapshot has bids strictly descending and asks strictly ascending
\* by price, and no level of size zero.
C7_SnapshotOrdered ==
    \A m \in Markets :
        LET view == Snapshot(m)
        IN  /\ \A i \in 1..(Len(view["bids"]) - 1) : view["bids"][i][1] > view["bids"][i + 1][1]
            /\ \A i \in 1..(Len(view["asks"]) - 1) : view["asks"][i][1] < view["asks"][i + 1][1]
            /\ \A side \in Sides : \A i \in 1..Len(view[side]) : view[side][i][2] # 0

\* a snapshot with two levels on each side, served after a frame
C7_Witness ==
    /\ lastOp.op = "frame" /\ lastOp.matched
    /\ Len(Snapshot(focus)["bids"]) = 2
    /\ Len(Snapshot(focus)["asks"]) = 2

\* how many login messages are among `messages`
LoginsIn(messages) == Cardinality({i \in 1..Len(messages) : messages[i].op = "login"})

\* C11 (as claimed): a reconnect of an authenticated client sends a login
\* message on the new connection and leaves the authenticated flag true.
C11_ReconnectRelogin ==
    [][(lastOp'.op \in ReconnectOps /\ _logged_in)
          => /\ LoginsIn(sent') = 1
             /\ _logged_in']_vars

\* ------------------------------------- dispatch of control and other frames

\* an acknowledgement frame arrives
OnAckFrame(message_type) ==
    /\ Done(_on_message(Self, [type |-> message_type]))
    /\ lastOp' = Op("ack", None, None)
    /\ UNCHANGED history

\* an error frame arrives
ErrorFrame == [type |-> "error", code |-> 400, msg |-> "Invalid login credentials"]

OnErrorFrame ==
    /\ Done(_on_message(Self, ErrorFrame))
    /\ lastOp' = Op("error", None, None)
    /\ UNCHANGED history

\* frames the protocol does not define: an info frame with another code, an
\* unknown type without and with a channel tag, a data frame of an unknown channel
OtherInfoCode == 20002

UnrecognizedFrames ==
    {[type |-> "info", code |-> OtherInfoCode],
     [type |-> "pong"],
     [type |-> "update", channel |-> "markets", data |-> [id |-> 1]]}
        \cup {[type |-> "pong", channel |-> "ticker", market |-> m, data |-> d] :
                  m \in Markets, d \in TickerPayloads}

OnUnrecognizedFrame(message) ==
    /\ Done(_on_message(Self, message))
    /\ lastOp' = Op("unrecognized", IF Has(message, "channel") THEN message.channel ELSE None, None)
    /\ held' = IF Has(message, "channel") /\ message.channel = "ticker"
               THEN Detached(message.market) ELSE held
    /\ UNCHANGED <<feed, track, focus, log>>

NextDispatch ==
    \/ \E market \in Markets : GetTrades(market)
    \/ \E market \in Markets : GetTicker(market)
    \/ GetFills
    \/ \E market \in Markets, data \in TradePayloads : OnTradesFrame(market, data)
    \/ \E market \in Markets, data \in TickerPayloads : OnTickerFrame(market, data)
    \/ \E message_type \in {"subscribed", "unsubscribed"} : OnAckFrame(message_type)
    \/ OnErrorFrame
    \/ \E message \in UnrecognizedFrames : OnUnrecognizedFrame(message)
    \/ OnInfoFrame

SpecDispatch == Init /\ [][NextDispatch]_vars

\* the state the feed replicates
replicated == <<_orders, _tickers, _orderbooks, _trades, _fills>>

\* C12 (as claimed): an unrecognized frame is dropped: dispatch raises nothing,
\* sends nothing and leaves the replicated state, the registry, the flag and
\* the connection as they were.
C12_UnrecognizedFrameDropped ==
    [][lastOp'.op = "unrecognized"
          => /\ raised' = None
             /\ sent' = <<>>
             /\ UNCHANGED <<replicated, _subscriptions, _logged_in, wire>>]_vars

\* C13: an error frame makes dispatch raise, and leaves the replicated state,
\* the registry and the authenticated flag as they were.
C13_ErrorFrameRaises ==
    [][lastOp'.op = "error"
          => /\ raised' = "Exception"
             /\ UNCHANGED <<replicated, _subscriptions, _logged_in>>]_vars

\* an error frame dispatched by an authenticated client holding subscriptions
\* and data
C13_Witness ==
    /\ lastOp.op = "error"
    /\ raised = "Exception"
    /\ _logged_in
    /\ Contains(_subscriptions, PrivateSub("fills"))
    /\ \E m \in Markets : _trades[m] # <<>> /\ m \in DOMAIN _tickers

\* C14 (as claimed): an info frame with code 20001 raises nothing and reaches
\* no channel handler, and when its dispatch returns the per-connection state
\* has been rebuilt (every replica, buffer and map empty) and every
\* subscription registered before it has been re-sent on the new connection
\* and is still registered, so that no later read returns data from before.
C14_InfoReconnectComplete ==
    [][lastOp'.op = "info"
          => /\ raised' = None
             /\ \A m \in Markets : _orderbooks'[m] = EmptyBook /\ _trades'[m] = <<>>
             /\ _fills' = <<>>
             /\ DOMAIN _tickers' = {}
             /\ DOMAIN _orders' = {}
             /\ \A x \in AllSubs :
                    Contains(_subscriptions, x) => (Contains(_subscriptions', x) /\ wire'[x] = 1)]_vars

\* ------------------------------------------- the history buffers at capacity

BufferFills == {[id |-> 1, size |-> 1], [id |-> 2, size |-> 1]}

\* a client that has run long enough for a buffer to be one short of its
\* capacity: the elements appended so far, which are also the buffer's
LongFills == [i \in 1..(maxlen - 1) |-> [id |-> 1 + (i % 2), size |-> 1]]
LongTrades == [i \in 1..(maxlen - 1) |-> IF i % 2 = 0 THEN <<"t1">> ELSE <<"t1", "t2">>]

InitBuffer ==
    /\ _subscriptions = <<>>
    /\ _orders = EmptyDict
    /\ _tickers = EmptyDict
    /\ _orderbooks = [m \in Markets |-> EmptyBook]
    /\ _logged_in = FALSE
    /\ focus \in Markets
    /\ _trades = [m \in Markets |-> IF m = focus THEN LongTrades ELSE <<>>]
    /\ _fills = LongFills
    /\ sent = <<>>
    /\ wire = [x \in WireKeys |-> 0]
    /\ raised = None
    /\ lastOp = NoOp
    /\ feed = [m \in Markets |-> NoFeed]
    /\ track = NoTrack
    /\ log = [fills |-> _fills, trades |-> _trades]
    /\ held = NoHeld
    /\ readerPc = "idle"
    /\ readerSub = PrivateSub("fills")
    /\ writerPc = "idle"

\* a fills frame arrives at a buffer that is full or about to be
OnLateFillsFrame(data) ==
    /\ Len(log.fills) >= maxlen - 1
    /\ Len(log.fills) < maxlen + MaxOverflow
    /\ Done(_on_message(Self, [type |-> "update", channel |-> "fills", data |-> data]))
    /\ lastOp' = Op("frame", "fills", None)
    /\ log' = [log EXCEPT !.fills = Append(@, data)]
    /\ UNCHANGED <<feed, track, focus, held>>

\* the same for a trades frame of the followed market
OnLateTradesFrame(data) ==
    /\ Len(log.trades[focus]) >= maxlen - 1
    /\ Len(log.trades[focus]) < maxlen + MaxOverflow
    /\ Done(_on_message(Self, DataFrame("trades", focus, data)))
    /\ lastOp' = Op("frame", "trades", focus)
    /\ log' = [log EXCEPT !.trades[focus] = Append(@, data)]
    /\ UNCHANGED <<feed, track, focus, held>>

NextBuffer ==
    \/ \E data \in BufferFills : OnLateFillsFrame(data)
    \/ \E data \in TradePayloads : OnLateTradesFrame(data)

SpecBuffer == InitBuffer /\ [][NextBuffer]_vars

\* the last n elements of a sequence, all of them if it has fewer
LastN(seq, n) == SubSeq(seq, IF Len(seq) > n THEN Len(seq) - n + 1 ELSE 1, Len(seq))

\* C15: the fill buffer and every market's trade buffer hold at most maxlen
\* elements, and exactly the most recent min(n, maxlen) of the n elements
\* appended to them, in arrival order.
C15_BufferKeepsMostRecent ==
    /\ Len(_fills) <= maxlen
    /\ _fills = LastN(log.fills, maxlen)
    /\ \A m \in Markets :
           /\ Len(_trades[m]) <= maxlen
           /\ _trades[m] = LastN(log.trades[m], maxlen)

\* both buffers full, each having evicted its oldest elements
C15_Witness ==
    /\ Len(_fills) = maxlen
    /\ Len(log.fills) = maxlen + MaxOverflow
    /\ Len(_trades[focus]) = maxlen
    /\ Len(log.trades[focus]) > maxlen
    /\ lastOp.op = "frame"

\* how many trades the payloads of a sequence of trades frames hold
RECURSIVE TradesIn(_)
TradesIn(payloads) ==
    IF payloads = <<>> THEN 0
    ELSE Len(Head(payloads)) + TradesIn(Tail(payloads))

\* C16 (as claimed): each trades frame adds one buffer entry per trade of its
\* payload, so below the capacity get_trades(market) returns as many elements
\* as trades were received for the market.
C16_TradesAppendedIndividually ==
    \A m \in Markets :
        TradesIn(log.trades[m]) <= maxlen
            => Len(get_trades(Self, m).result) = TradesIn(log.trades[m])

\* ------------------------------------ a consumer that keeps what a read returns

Accessors == {"get_fills", "get_orders", "get_trades", "get_orderbook", "get_ticker"}

ChannelOf(accessor) ==
    CASE accessor = "get_fills" -> "fills"
      [] accessor = "get_orders" -> "orders"
      [] accessor = "get_trades" -> "trades"
      [] accessor = "get_orderbook" -> "orderbook"
      [] accessor = "get_ticker" -> "ticker"

\* the markets an accessor is called with; None for the two without the argument
MarketsOf(accessor) == IF accessor \in {"get_fills", "get_orders"} THEN {None} ELSE Markets

Call(accessor, market) ==
    CASE accessor = "get_fills" -> get_fills(Self)
      [] accessor = "get_orders" -> get_orders(Self)
      [] accessor = "get_trades" -> get_trades(Self, market)
      [] accessor = "get_orderbook" -> get_orderbook(Self, market)
      [] accessor = "get_ticker" -> get_ticker(Self, market)

\* the return expressions: list(...copy()), dict(...copy()) and the
\* comprehension of get_orderbook build a new container, get_ticker returns
\* self._tickers[market] itself
ReturnsInternal(accessor) == accessor = "get_ticker"

\* the consumer calls an accessor and keeps the value
Read(accessor, market) ==
    LET got == Call(accessor, market)
    IN  /\ Room(OpSub(Op(accessor, ChannelOf(accessor), market)))
        /\ Done(got.self)
        /\ lastOp' = Op(accessor, ChannelOf(accessor), market)
        /\ held' = [accessor |-> accessor, market |-> market, value |-> got.result,
                    attached |-> ReturnsInternal(accessor)]
        /\ UNCHANGED <<feed, track, focus, log>>

\* the consumer empties the container it was handed (value.clear()); when
\* that is the client's own object, the client's map shows it
CallerClears ==
    /\ held.accessor # None
    /\ Done(IF held.attached
            THEN [Self EXCEPT !._tickers = DictUpdate(@, [m \in {held.market} |-> EmptyDict])]
            ELSE Self)
    /\ lastOp' = Op("caller_clear", ChannelOf(held.accessor), held.market)
    /\ held' = [held EXCEPT !.value = EmptyDict]
    /\ UNCHANGED <<feed, track, focus, log>>

NextAlias ==
    \/ \E accessor \in Accessors : \E market \in MarketsOf(accessor) : Read(accessor, market)
    \/ CallerClears
    \/ \E market \in Markets, data \in TickerPayloads : OnTickerFrame(market, data)
    \/ \E data \in FillPayloads : OnFillsFrame(data)
    \/ \E data \in OrderPayloads : OnOrdersFrame(data)
    \/ OnInfoFrame

SpecAlias == Init /\ [][NextAlias]_vars

\* C17 (as claimed): what a consumer does to a value an accessor returned
\* changes no internal map or buffer, and what the feed path does afterwards
\* does not change the value.
C17_ReadsAreIndependentCopies ==
    [][/\ lastOp'.op = "caller_clear" => UNCHANGED replicated
       /\ lastOp'.op \in {"frame", "info"} => held'.value = held.value]_vars

\* how many unsubscribe messages for `subscription` are among `messages`
UnsubscribesIn(messages, subscription) ==
    Cardinality({i \in 1..Len(messages) :
        messages[i].op = "unsubscribe" /\ SubOf(messages[i]) = subscription})

MismatchFrame(o) == o.op = "frame" /\ o.channel = "orderbook" /\ ~o.matched

\* C18: a checksum mismatch for a market removes that market's orderbook
\* subscription from the registry and nothing else, sends one unsubscribe
\* message, for it, and no other, and triggers no reconnect: the other
\* subscriptions stay subscribed on the same connection.
C18_MismatchDropsOnlyThatSubscription ==
    [][MismatchFrame(lastOp')
          => LET x == OrderbookSub(lastOp'.market)
             IN  /\ _subscriptions' = SelectSeq(_subscriptions, LAMBDA y : y # x)
                 /\ \A y \in AllSubs : UnsubscribesIn(sent', y) = IF y = x THEN 1 ELSE 0
                 /\ \A y \in AllSubs \ {x} : wire'[y] = wire[y] /\ SubscribesIn(sent', y) = 0
                 /\ _logged_in' = _logged_in]_vars

\* a mismatch for a registered market while the other market's orderbook
\* subscription is registered too
C18_Witness ==
    /\ MismatchFrame(lastOp)
    /\ sent = <<[op |-> "unsubscribe"] @@ OrderbookSub(lastOp.market)>>
    /\ ~Contains(_subscriptions, OrderbookSub(lastOp.market))
    /\ \E m \in Markets \ {lastOp.market} :
           Contains(_subscriptions, OrderbookSub(m)) /\ wire[OrderbookSub(m)] = 1

\* C20: processing an orderbook frame never fails in the removal of the
\* mismatch path; afterwards either the checksum matched and the market's
\* orderbook subscription is registered, or every replica is empty and it is
\* not registered.
C20_UnsubscribeTargetRegistered ==
    (lastOp.op = "frame" /\ lastOp.channel = "orderbook")
        => /\ raised = None
           /\ IF lastOp.matched
              THEN Contains(_subscriptions, OrderbookSub(lastOp.market))
              ELSE /\ \A m \in Markets : _orderbooks[m] = EmptyBook
                   /\ ~Contains(_subscriptions, OrderbookSub(lastOp.market))

\* a mismatching frame for a market that was not subscribed: the subscription
\* is made by the handler's own read and then removed
C20_Witness ==
    /\ MismatchFrame(lastOp)
    /\ raised = None
    /\ sent = <<[op |-> "subscribe"] @@ OrderbookSub(lastOp.market),
                [op |-> "unsubscribe"] @@ OrderbookSub(lastOp.market)>>
    /\ ~Contains(_subscriptions, OrderbookSub(lastOp.market))

PrivateSubs == {PrivateSub("fills"), PrivateSub("orders")}

\* C19 (as claimed): a fills or orders subscribe message is sent only while
\* the authenticated flag is true, the flag is true only if a login message
\* has been sent since the last reset, and so on the current connection a
\* login message precedes any fills or orders subscribe message.
C19_LoginPrecedesPrivateSubscribe ==
    /\ \A x \in PrivateSubs : SubscribesIn(sent, x) > 0 => _logged_in
    /\ _logged_in => wire[LoginKey] > 0
    /\ \A x \in PrivateSubs : wire[x] > 0 => wire[LoginKey] > 0
====
